---- MODULE Spec2Model ----
(***************************************************************************)
(* Model of main.py: the scrape -> parse -> dedupe -> translate -> persist *)
(* -> publish job.  A text is a sequence of one-character strings; a URL   *)
(* is a sequence of tokens in which "/" and "-" are tokens of their own.   *)
(***************************************************************************)
EXTENDS Integers, Sequences, FiniteSets, TLC

(* ------------------------------ bounds -------------------------------- *)
\* number of pipeline runs (process starts) a behaviour follows
MaxRuns == 2
\* number of failing calls the external services (the translator, Telegram)
\* make in one behaviour
MaxFaults == 3
\* number of links of the index pages InitLinks draws
MaxLinks == 2
\* number of question blocks of a day page
MaxBlocks == 2
\* length of a text, and the largest limit, truncate_text is applied to alone
MaxTextLen == 5
MaxLimit == 6

(* ------------------------- text primitives ---------------------------- *)
Min(a, b) == IF a < b THEN a ELSE b
Max(a, b) == IF a > b THEN a ELSE b

\* Python's text[:k], k negative counts from the end
PySliceTo(text, k) ==
    LET n == IF k >= 0 THEN Min(k, Len(text)) ELSE Max(Len(text) + k, 0)
    IN  [i \in 1..n |-> text[i]]

\* Python's text[k:] for 0 <= k
PySliceFrom(text, k) ==
    [i \in 1..Max(Len(text) - k, 0) |-> text[i + k]]

Whitespace == {" "}

RECURSIVE LStrip(_)
LStrip(text) ==
    IF text # <<>> /\ Head(text) \in Whitespace THEN LStrip(Tail(text)) ELSE text

RECURSIVE RStrip(_)
RStrip(text) ==
    IF text # <<>> /\ text[Len(text)] \in Whitespace
    THEN RStrip(PySliceTo(text, Len(text) - 1))
    ELSE text

\* str.strip()
Strip(text) == RStrip(LStrip(text))

\* positions of the token sep in text
Positions(text, sep) == {i \in 1..Len(text) : text[i] = sep}

SetMin(S) == CHOOSE x \in S : \A y \in S : x <= y
SetMax(S) == CHOOSE x \in S : \A y \in S : x >= y

\* str.split(sep): the pieces between the occurrences of sep
RECURSIVE Split(_, _)
Split(text, sep) ==
    IF Positions(text, sep) = {}
    THEN <<text>>
    ELSE LET p == SetMin(Positions(text, sep))
         IN  <<PySliceTo(text, p - 1)>> \o Split(PySliceFrom(text, p), sep)

\* str.rstrip('/')
RECURSIVE RStripSlash(_)
RStripSlash(text) ==
    IF text # <<>> /\ text[Len(text)] = "/"
    THEN RStripSlash(PySliceTo(text, Len(text) - 1))
    ELSE text

\* pat in text
IsSubstring(pat, text) ==
    \E i \in 0..(Len(text) - Len(pat)) :
        \A j \in 1..Len(pat) : text[i + j] = pat[j]

\* text.split('{', 1)[-1]
AfterFirstBrace(text) ==
    IF Positions(text, "{") = {} THEN text
    ELSE PySliceFrom(text, SetMin(Positions(text, "{")))

\* text.rsplit('}', 1)[0]
BeforeLastBrace(text) ==
    IF Positions(text, "}") = {} THEN text
    ELSE PySliceTo(text, SetMax(Positions(text, "}")) - 1)

\* str.upper() on the letters the model uses
UpperOf(c) ==
    CASE c = "a" -> "A" [] c = "b" -> "B" [] c = "c" -> "C"
      [] c = "d" -> "D" [] c = "e" -> "E" [] OTHER -> c
Upper(text) == [i \in 1..Len(text) |-> UpperOf(text[i])]

Ellipsis == <<".", ".", ".">>

\* truncate_text that cuts at max_length, leaving no room for the ellipsis
truncate_text_no_room(text, max_length) ==
    IF Len(text) > max_length
    THEN PySliceTo(text, max_length) \o Ellipsis
    ELSE text

\* TelegramQuizBot.truncate_text
truncate_text(text, max_length) ==
    IF Len(text) > max_length
    THEN PySliceTo(text, max_length - 3) \o Ellipsis
    ELSE text

(* ----------------------------- Translator ------------------------------ *)
\* what one call of the external GoogleTranslator.translate does
Outcome == {"ok", "RequestError", "Exception"}

max_retries == 3
\* time.sleep(2) after a failed attempt
RetrySleep == 2

\* the external translator's answer for text: text in the target language
Gu(text) == <<"gu">> \o text

\* a run of the external translator: its outcome at each of the attempts
Scripts == [1..max_retries -> Outcome]

\* the loop of GoogleTranslatorWrapper.translate from attempt number `attempt`
\* on (1-based); calls counts the external calls made, slept the time waited
RECURSIVE translate_loop(_, _, _)
translate_loop(text, script, attempt) ==
    IF attempt > max_retries
    THEN [result |-> text, calls |-> attempt - 1,
          slept |-> RetrySleep * (attempt - 1)]
    ELSE IF script[attempt] = "ok"
         THEN [result |-> Gu(text), calls |-> attempt,
               slept |-> RetrySleep * (attempt - 1)]
         ELSE translate_loop(text, script, attempt + 1)

\* translate whose loop gives up after the first failed attempt
translate_no_retry(text, script) ==
    IF script[1] = "ok"
    THEN [result |-> Gu(text), calls |-> 1, slept |-> 0]
    ELSE [result |-> text, calls |-> 1, slept |-> RetrySleep]

\* GoogleTranslatorWrapper.translate
translate(text, script) == translate_loop(text, script, 1)

\* the external calls of translate under script that failed
FailedCalls(text, script) ==
    Cardinality({i \in 1..translate(text, script).calls : script[i] # "ok"})

\* the first attempt of script that succeeds, 0 when none does
FirstOk(script) ==
    IF \A i \in 1..max_retries : script[i] # "ok" THEN 0
    ELSE SetMin({i \in 1..max_retries : script[i] = "ok"})

(* ------------------------------ PageParser ---------------------------- *)
\* A question block (div.bix-div-container) of a day page:
\*   qtxt         [found, text]            div.bix-td-qtxt
\*   options_div  [found, rows]            div.bix-tbl-options, its bix-opt-row
\*                rows: Seq([found, text])   each row's div.bix-td-option-val
\*   hidden_input [found, has_value, value]  input.jq-hdnakq
\*   answer_div   [found, desc_found, text]  div.bix-div-answer / bix-ans-description

\* value_in_braces of a block (never fails)
ValueInBraces(hidden_input) ==
    IF hidden_input.found /\ hidden_input.has_value
    THEN BeforeLastBrace(AfterFirstBrace(hidden_input.value))
    ELSE <<>>

\* the statements of the try block before the first translation: they raise
\* (AttributeError on None) when a looked-up element is absent
ExtractionRaises(block) ==
    \/ ~block.qtxt.found
    \/ ~block.options_div.found
    \/ \E i \in 1..Len(block.options_div.rows) : ~block.options_div.rows[i].found
    \/ ~block.answer_div.found
    \/ ~block.answer_div.desc_found

\* qtxt, options, value_in_braces, explanation of a block that does not raise
Extract(block) ==
    [qtxt            |-> Strip(block.qtxt.text),
     options         |-> [i \in 1..Len(block.options_div.rows) |->
                             Strip(block.options_div.rows[i].text)],
     value_in_braces |-> ValueInBraces(block.hidden_input),
     explanation     |-> Strip(block.answer_div.text)]

\* option_map.get(value_in_braces.upper(), 0)
StoredOptionId(value_in_braces) ==
    LET correct_option == Upper(value_in_braces)
    IN  CASE correct_option = <<"A">> -> 0
          [] correct_option = <<"B">> -> 1
          [] correct_option = <<"C">> -> 2
          [] correct_option = <<"D">> -> 3
          [] OTHER -> 0

\* the texts the block's translate calls are made on, in call order:
\* qtxt, each option, explanation
FieldsOf(raw) == <<raw.qtxt>> \o raw.options \o <<raw.explanation>>

\* question_doc with the month stored where the day belongs
QuestionDoc_month_as_day(raw, tr, day) ==
    [question        |-> tr[1],
     options         |-> [i \in 1..Len(raw.options) |-> tr[i + 1]],
     value_in_braces |-> raw.value_in_braces,
     explanation     |-> tr[Len(tr)],
     correct_option_id |-> StoredOptionId(raw.value_in_braces),
     day             |-> <<"05">>]

\* question_doc built from the raw block and the translated fields
QuestionDoc(raw, tr, day) ==
    [question        |-> tr[1],
     options         |-> [i \in 1..Len(raw.options) |-> tr[i + 1]],
     value_in_braces |-> raw.value_in_braces,
     explanation     |-> tr[Len(tr)],
     correct_option_id |-> StoredOptionId(raw.value_in_braces),
     day             |-> day]

(* ----------------------------- LinkDiscovery -------------------------- *)
TwoDigits == <<"01", "02", "03", "04", "05", "06",
               "07", "08", "09", "10", "11", "12">>

\* get_current_month: f"{month:02d}" of the date in Asia/Kolkata
get_current_month(date) == TwoDigits[date.month]

\* the substring the filter looks for in an href
LinkPattern(month_digit) ==
    <<"/", "current-affairs", "/", "2024", "-", month_digit, "-">>

Origin == <<"https:", "/", "/", "www.indiabix.com">>

\* urljoin("https://www.indiabix.com/", href)
urljoin(href) ==
    IF href # <<>> /\ Head(href) \in {"https:", "http:"} THEN href
    ELSE IF Len(href) >= 2 /\ href[1] = "/" /\ href[2] = "/" THEN <<"https:">> \o href
    ELSE IF href # <<>> /\ href[1] = "/" THEN Origin \o href
    ELSE Origin \o <<"/">> \o href

\* the links of the index page the filter keeps, joined, in document order
RECURSIVE ValidLinks(_, _)
ValidLinks(hrefs, month_digit) ==
    IF hrefs = <<>> THEN <<>>
    ELSE (IF IsSubstring(LinkPattern(month_digit), Head(hrefs))
          THEN <<urljoin(Head(hrefs))>> ELSE <<>>)
         \o ValidLinks(Tail(hrefs), month_digit)

\* _, year, month, day = full_url.split("/")[-4:] ; day = day.rstrip('/')
UrlParts(full_url) ==
    LET segs == Split(full_url, "/")
        n    == Len(segs)
    IN  [year  |-> segs[n - 2],
         month |-> segs[n - 1],
         day   |-> RStripSlash(segs[n])]

(* -------------------------------- Store ------------------------------- *)
\* MongoDBManager.get_or_create_collection: db[str(year)][str(month)]
get_or_create_collection(year, month) == <<year, month>>

\* find_one with a query on a field the documents do not carry the day in
find_one_wrong_field(store, collection, day) ==
    \E i \in 1..Len(store) :
        store[i].coll = collection /\ store[i].doc.question = day

\* collection.find_one({"day": day}) finds a document
find_one(store, collection, day) ==
    \E i \in 1..Len(store) : store[i].coll = collection /\ store[i].doc.day = day

(* ------------------------------ Publisher ----------------------------- *)
QuestionLimit == 300
OptionLimit == 100
ExplanationLimit == 200
\* await asyncio.sleep(3)
PollDelay == 3

\* chr(65 + i) for the option counts the model reaches
Chr65 == <<"A", "B", "C", "D", "E", "F", "G", "H">>

\* option_mapping.get(correct_option, 0): a default instead of None
OptionMappingGet_default_zero(options, correct_option) ==
    IF \E i \in 0..(Len(options) - 1) : correct_option = <<Chr65[i + 1]>>
    THEN CHOOSE i \in 0..(Len(options) - 1) : correct_option = <<Chr65[i + 1]>>
    ELSE 0

\* option_mapping.get(correct_option): the index, or -1 for None
OptionMappingGet(options, correct_option) ==
    IF \E i \in 0..(Len(options) - 1) : correct_option = <<Chr65[i + 1]>>
    THEN CHOOSE i \in 0..(Len(options) - 1) : correct_option = <<Chr65[i + 1]>>
    ELSE -1

\* the arguments send_poll hands to bot.send_poll
PollPayload(question_doc) ==
    LET options == [i \in 1..Len(question_doc.options) |->
                       truncate_text(question_doc.options[i], OptionLimit)]
    IN  [question          |-> truncate_text(question_doc.question, QuestionLimit),
         options           |-> options,
         correct_option_id |-> OptionMappingGet(options, question_doc.value_in_braces),
         explanation       |-> truncate_text(question_doc.explanation, ExplanationLimit)]

(* -------------------------------- state ------------------------------- *)
VARIABLES
    today,          \* the date in Asia/Kolkata: [year, month]
    index_hrefs,    \* hrefs of the index page's a.text-link.me-3 elements
    pages,          \* day-page URL -> its question blocks, in document order
    db,             \* the store: inserted documents [coll, doc, run, link, blk]
    pc,             \* where main() is
    run,            \* number of the current run of the process
    valid_links,    \* scrape_questions_to_mongodb's valid_links
    link,           \* position of full_url in valid_links
    blk,            \* position of question_div in question_divs
    raw,            \* the block's extracted fields
    tr,             \* the fields translated so far
    new_questions,  \* scrape_questions_to_mongodb's new_questions
    returned,       \* what scrape_questions_to_mongodb returned to main
    client,         \* the MongoClient: "none", "open", "closed"
    qi,             \* position of question in send_new_questions_to_telegram
    clock,          \* time slept since the run began
    faults,         \* failing calls the external services will still make
    obs,            \* what the run did so far (history, read by properties only)
    prev_completed, \* the previous run left the link loop at its end
    probe           \* truncate_text applied on its own: [text, max_length, out, done]

env  == <<today, index_hrefs, pages>>
loop == <<valid_links, link, blk, raw, tr, new_questions>>
vars == <<today, index_hrefs, pages, db, pc, run, valid_links, link, blk, raw, tr,
          new_questions, returned, client, qi, clock, faults, obs,
          prev_completed, probe>>

NoRaw == [qtxt |-> <<>>, options |-> <<>>, value_in_braces |-> <<>>,
          explanation |-> <<>>]
NoTranslate == [text |-> <<>>, first_ok |-> -1, result |-> <<>>, calls |-> 0]
NoProbe == [text |-> <<>>, max_length |-> 0, out |-> <<>>, done |-> TRUE]

\* nothing done yet in this run
NoObs(store) ==
    [index_failed   |-> FALSE, \* the index request raised
     fetch_failed   |-> 0,     \* the link whose day-page request raised
     checked        |-> <<>>,  \* find_one calls: [link, hit, coll, day]
     fetched        |-> <<>>,  \* day-page requests: link
     skipped_blocks |-> <<>>,  \* blocks whose extraction raised: [link, blk]
     ext_calls      |-> 0,     \* external translator calls
     last_translate |-> NoTranslate,
     inserts        |-> 0,     \* insert_question calls
     closes         |-> 0,     \* close_connection calls
     completed      |-> FALSE, \* the link loop ended at the end of valid_links
     polls          |-> <<>>,  \* send_poll calls: [doc, status, payload, at]
     db_at_start    |-> store]

(* --------------------------- the source site -------------------------- *)
DayHref(y, m, d, slash) ==
    <<"/", "current-affairs", "/", y, "-", m, "-", d>>
        \o (IF slash THEN <<"/">> ELSE <<>>)

Block(q, opts, hidden, expl) ==
    [qtxt         |-> [found |-> TRUE, text |-> q],
     options_div  |-> [found |-> TRUE,
                       rows |-> [i \in 1..Len(opts) |->
                                    [found |-> TRUE, text |-> opts[i]]]],
     hidden_input |-> [found |-> TRUE, has_value |-> TRUE, value |-> hidden],
     answer_div   |-> [found |-> TRUE, desc_found |-> TRUE, text |-> expl]]

SeqsUpTo(S, n) == UNION {[1..k -> S] : k \in 0..n}

Dates == {[year |-> 2024, month |-> 5]}

SlashHref == DayHref("2024", "05", "01", TRUE)
BareHref == DayHref("2024", "05", "02", FALSE)
OtherMonthHref == DayHref("2024", "06", "01", TRUE)
Hrefs == {SlashHref, BareHref, OtherMonthHref}
OtherYearHref == DayHref("2025", "05", "03", TRUE)
\* dates in May 2024, in May of another year, in another month of 2024
AllDates == {[year |-> 2024, month |-> 5], [year |-> 2025, month |-> 5],
             [year |-> 2024, month |-> 6]}

\* well-formed blocks
GoodBlock == Block(<<" ", "q">>, <<<<"x">>>>, <<"n", "{", "A", "}">>, <<"e">>)
TwoOptionBlock == Block(<<"r">>, <<<<"x">>, <<"y", " ">>>>, <<"{", "B", "}">>, <<>>)
\* malformed blocks
NoQtxtBlock == [GoodBlock EXCEPT !.qtxt = [found |-> FALSE, text |-> <<>>]]
NoOptionsBlock ==
    [GoodBlock EXCEPT !.options_div = [found |-> FALSE, rows |-> <<>>]]
NoOptionValBlock ==
    [GoodBlock EXCEPT !.options_div.rows = <<[found |-> FALSE, text |-> <<>>]>>]
NoAnswerBlock ==
    [GoodBlock EXCEPT !.answer_div =
        [found |-> FALSE, desc_found |-> FALSE, text |-> <<>>]]
NoDescriptionBlock ==
    [GoodBlock EXCEPT !.answer_div =
        [found |-> TRUE, desc_found |-> FALSE, text |-> <<>>]]

\* blocks that differ in the hidden input and in the number of options
Markers == {<<"{", "A", "}">>, <<"{", "B", "}">>, <<"{", "b", "}">>,
            <<"{", "C", "}">>, <<"{", "}">>, <<"B">>, <<"{", "A", "B", "}">>,
            <<"{", "{", "A", "}", "}">>}
OptionLists == {<<>>, <<<<"x">>>>, <<<<"x">>, <<"y">>>>}
MarkedBlocks == {Block(<<"q">>, opts, m, <<"e">>) : opts \in OptionLists, m \in Markers}
\* more options than option_map has letters
FiveOptionBlock ==
    Block(<<"q">>, <<<<"v">>, <<"w">>, <<"x">>, <<"y">>, <<"z">>>>,
          <<"{", "E", "}">>, <<"e">>)
\* a lowercase marker: not a key of send_poll's option_mapping
LowercaseBlock == Block(<<"q">>, <<<<"x">>, <<"y">>>>, <<"{", "b", "}">>, <<"e">>)
NoHiddenBlock ==
    [TwoOptionBlock EXCEPT !.hidden_input =
        [found |-> FALSE, has_value |-> FALSE, value |-> <<>>]]
NoValueBlock ==
    [TwoOptionBlock EXCEPT !.hidden_input =
        [found |-> TRUE, has_value |-> FALSE, value |-> <<>>]]

UrlsOf(hrefs) == {urljoin(hrefs[i]) : i \in 1..Len(hrefs)}

TypeOK == pc \in {"start", "links", "fetch", "blocks", "translate", "insert",
                  "returned", "publish", "sleep", "done"}

\* the process has just started on the store `store`
Idle(store) ==
    /\ db = store
    /\ pc = "start"
    /\ run = 1
    /\ valid_links = <<>>
    /\ link = 0
    /\ blk = 0
    /\ raw = NoRaw
    /\ tr = <<>>
    /\ new_questions = <<>>
    /\ returned = <<>>
    /\ client = "none"
    /\ qi = 0
    /\ clock = 0
    /\ obs = NoObs(store)
    /\ prev_completed = FALSE

\* index pages of up to MaxLinks links, each day page with one block;
\* the external services do not fail
InitLinks ==
    /\ today \in Dates
    /\ index_hrefs \in SeqsUpTo(Hrefs, MaxLinks)
    /\ pages \in [UrlsOf(index_hrefs) -> {<<GoodBlock>>, <<NoOptionsBlock>>}]
    /\ faults = 0
    /\ Idle(<<>>)
    /\ probe = NoProbe

\* a day page of up to MaxBlocks blocks, well-formed or malformed, followed by
\* a second day page; the external services do not fail
InitPage ==
    /\ today \in Dates
    /\ index_hrefs = <<SlashHref, BareHref>>
    /\ \E page \in SeqsUpTo({GoodBlock, TwoOptionBlock, NoQtxtBlock, NoOptionsBlock,
                             NoOptionValBlock, NoAnswerBlock, NoDescriptionBlock},
                            MaxBlocks) :
          pages = (urljoin(SlashHref) :> page) @@ (urljoin(BareHref) :> <<GoodBlock>>)
    /\ faults = 0
    /\ Idle(<<>>)
    /\ probe = NoProbe

\* one day page; the external services fail up to MaxFaults times
InitFaults ==
    /\ today \in Dates
    /\ index_hrefs = <<SlashHref>>
    /\ \E page \in {<<GoodBlock>>, <<TwoOptionBlock>>, <<NoOptionsBlock, GoodBlock>>} :
          pages = (urljoin(SlashHref) :> page)
    /\ faults = MaxFaults
    /\ Idle(<<>>)
    /\ probe = NoProbe

\* one day page of one block, of any marker and number of options
InitPoll ==
    /\ today \in Dates
    /\ index_hrefs = <<SlashHref>>
    /\ \E b \in MarkedBlocks \cup {NoHiddenBlock, NoValueBlock, FiveOptionBlock} :
          pages = (urljoin(SlashHref) :> <<b>>)
    /\ faults = 1
    /\ Idle(<<>>)
    /\ probe = NoProbe

\* two day pages that leave a queue of three records; Telegram or the
\* translator fail up to twice
InitQueue ==
    /\ today \in Dates
    /\ index_hrefs = <<SlashHref, BareHref>>
    /\ \E page \in {<<TwoOptionBlock, GoodBlock>>, <<LowercaseBlock, TwoOptionBlock>>} :
          pages = (urljoin(SlashHref) :> page) @@ (urljoin(BareHref) :> <<GoodBlock>>)
    /\ faults = 2
    /\ Idle(<<>>)
    /\ probe = NoProbe

\* an index page with links of two months and two years, read on dates of
\* either month and either year
InitDates ==
    /\ today \in AllDates
    /\ index_hrefs = <<SlashHref, OtherMonthHref, OtherYearHref>>
    /\ pages = [u \in UrlsOf(index_hrefs) |-> <<GoodBlock>>]
    /\ faults = 0
    /\ Idle(<<>>)
    /\ probe = NoProbe

Init == InitLinks \/ InitPage \/ InitFaults \/ InitPoll \/ InitQueue \/ InitDates

(* --------------------- scrape_questions_to_mongodb -------------------- *)
full_url == valid_links[link]
question_divs == pages[full_url]

\* the collection and the day the loop body derives from full_url
Target(url) ==
    LET p == UrlParts(url)
    IN  [coll |-> get_or_create_collection(p.year, p.month), day |-> p.day]

\* the index request raises, is logged, and the function goes on with the links
IndexFetchFail_goes_on ==
    /\ pc = "start"
    /\ valid_links' = ValidLinks(index_hrefs, get_current_month(today))
    /\ client' = "open"
    /\ new_questions' = <<>>
    /\ link' = 1
    /\ pc' = "links"
    /\ obs' = [obs EXCEPT !.index_failed = TRUE]
    /\ UNCHANGED <<env, db, run, blk, raw, tr, returned, qi, clock, faults,
                   prev_completed, probe>>

\* requests.get(url) or raise_for_status() raises: the outer except returns []
IndexFetchFail ==
    /\ pc = "start"
    /\ returned' = <<>>
    /\ pc' = "returned"
    /\ obs' = [obs EXCEPT !.index_failed = TRUE]
    /\ UNCHANGED <<env, db, run, loop, client, qi, clock, faults,
                   prev_completed, probe>>

\* the index page is read, the links filtered, translator and manager built
IndexFetchOk ==
    /\ pc = "start"
    /\ valid_links' = ValidLinks(index_hrefs, get_current_month(today))
    /\ client' = "open"
    /\ new_questions' = <<>>
    /\ link' = 1
    /\ pc' = "links"
    /\ UNCHANGED <<env, db, run, blk, raw, tr, returned, qi, clock, faults,
                   obs, prev_completed, probe>>

\* the day is found but the loop body goes on (no continue)
DedupeHit_no_continue ==
    /\ pc = "links"
    /\ link <= Len(valid_links)
    /\ find_one(db, Target(full_url).coll, Target(full_url).day)
    /\ pc' = "fetch"
    /\ obs' = [obs EXCEPT !.checked = Append(@, [link |-> link, hit |-> TRUE,
                               coll |-> Target(full_url).coll,
                               day |-> Target(full_url).day])]
    /\ UNCHANGED <<env, db, run, loop, returned, client, qi, clock, faults,
                   prev_completed, probe>>

\* find_one finds a document of the day: continue
DedupeHit ==
    /\ pc = "links"
    /\ link <= Len(valid_links)
    /\ find_one(db, Target(full_url).coll, Target(full_url).day)
    /\ link' = link + 1
    /\ obs' = [obs EXCEPT !.checked = Append(@, [link |-> link, hit |-> TRUE,
                               coll |-> Target(full_url).coll,
                               day |-> Target(full_url).day])]
    /\ UNCHANGED <<env, db, pc, run, valid_links, blk, raw, tr, new_questions,
                   returned, client, qi, clock, faults, prev_completed, probe>>

\* find_one finds none: go on to the day-page request
DedupeMiss ==
    /\ pc = "links"
    /\ link <= Len(valid_links)
    /\ ~find_one(db, Target(full_url).coll, Target(full_url).day)
    /\ pc' = "fetch"
    /\ obs' = [obs EXCEPT !.checked = Append(@, [link |-> link, hit |-> FALSE,
                               coll |-> Target(full_url).coll,
                               day |-> Target(full_url).day])]
    /\ UNCHANGED <<env, db, run, loop, returned, client, qi, clock, faults,
                   prev_completed, probe>>

\* the day page is read and its question blocks found
DayFetchOk ==
    /\ pc = "fetch"
    /\ blk' = 1
    /\ pc' = "blocks"
    /\ obs' = [obs EXCEPT !.fetched = Append(@, link)]
    /\ UNCHANGED <<env, db, run, valid_links, link, raw, tr, new_questions,
                   returned, client, qi, clock, faults, prev_completed, probe>>

\* requests.get(full_url) or raise_for_status() raises a RequestException:
\* it leaves the for loop and the try block, and the outer except returns []
DayFetchFail ==
    /\ pc = "fetch"
    /\ returned' = <<>>
    /\ pc' = "returned"
    /\ obs' = [obs EXCEPT !.fetched = Append(@, link), !.fetch_failed = link]
    /\ UNCHANGED <<env, db, run, loop, client, qi, clock, faults,
                   prev_completed, probe>>

\* the block's extraction raises and ends the page's block loop
BlockSkip_ends_page ==
    /\ pc = "blocks"
    /\ blk <= Len(question_divs)
    /\ ExtractionRaises(question_divs[blk])
    /\ blk' = Len(question_divs) + 1
    /\ obs' = [obs EXCEPT !.skipped_blocks = Append(@, [link |-> link, blk |-> blk])]
    /\ UNCHANGED <<env, db, pc, run, valid_links, link, raw, tr, new_questions,
                   returned, client, qi, clock, faults, prev_completed, probe>>

\* the block's extraction raises: the inner except logs, the next block follows
BlockSkip ==
    /\ pc = "blocks"
    /\ blk <= Len(question_divs)
    /\ ExtractionRaises(question_divs[blk])
    /\ blk' = blk + 1
    /\ obs' = [obs EXCEPT !.skipped_blocks = Append(@, [link |-> link, blk |-> blk])]
    /\ UNCHANGED <<env, db, pc, run, valid_links, link, raw, tr, new_questions,
                   returned, client, qi, clock, faults, prev_completed, probe>>

\* the block's fields are extracted
BlockExtract ==
    /\ pc = "blocks"
    /\ blk <= Len(question_divs)
    /\ ~ExtractionRaises(question_divs[blk])
    /\ raw' = Extract(question_divs[blk])
    /\ tr' = <<>>
    /\ pc' = "translate"
    /\ UNCHANGED <<env, db, run, valid_links, link, blk, new_questions, returned,
                   client, qi, clock, faults, obs, prev_completed, probe>>

\* one translator.translate(text) call of the block, in call order
TranslateField ==
    /\ pc = "translate"
    /\ Len(tr) < Len(FieldsOf(raw))
    /\ \E script \in Scripts :
        LET text == FieldsOf(raw)[Len(tr) + 1]
            r    == translate(text, script)
            f    == FailedCalls(text, script)
        IN  /\ f <= faults
            /\ faults' = faults - f
            /\ tr' = Append(tr, r.result)
            /\ clock' = clock + r.slept
            /\ obs' = [obs EXCEPT
                        !.ext_calls = @ + r.calls,
                        !.last_translate =
                            [text |-> text, first_ok |-> FirstOk(script),
                             result |-> r.result, calls |-> r.calls]]
            /\ pc' = IF Len(tr) + 1 = Len(FieldsOf(raw)) THEN "insert" ELSE "translate"
    /\ UNCHANGED <<env, db, run, valid_links, link, blk, raw, new_questions,
                   returned, client, qi, prev_completed, probe>>

\* question_doc is built, inserted and appended to new_questions
InsertQuestion ==
    /\ pc = "insert"
    /\ LET question_doc == QuestionDoc(raw, tr, Target(full_url).day)
       IN  /\ db' = Append(db, [coll |-> Target(full_url).coll, doc |-> question_doc,
                                run |-> run, link |-> link, blk |-> blk])
           /\ new_questions' = Append(new_questions, question_doc)
    /\ blk' = blk + 1
    /\ raw' = NoRaw
    /\ tr' = <<>>
    /\ pc' = "blocks"
    /\ obs' = [obs EXCEPT !.inserts = @ + 1]
    /\ UNCHANGED <<env, run, valid_links, link, returned, client, qi, clock,
                   faults, prev_completed, probe>>

\* the page's blocks are done: next link
PageDone ==
    /\ pc = "blocks"
    /\ blk > Len(question_divs)
    /\ link' = link + 1
    /\ blk' = 0
    /\ pc' = "links"
    /\ UNCHANGED <<env, db, run, valid_links, raw, tr, new_questions, returned,
                   client, qi, clock, faults, obs, prev_completed, probe>>

\* the loop is over: mongo_manager.close_connection(); return new_questions
CloseAndReturn ==
    /\ pc = "links"
    /\ link > Len(valid_links)
    /\ client' = "closed"
    /\ returned' = new_questions
    /\ pc' = "returned"
    /\ obs' = [obs EXCEPT !.closes = @ + 1, !.completed = TRUE]
    /\ UNCHANGED <<env, db, run, loop, qi, clock, faults, prev_completed, probe>>

(* ------------------- main, send_new_questions_to_telegram ------------- *)
\* if new_questions: ... else: "No new questions found."
MainNoNew ==
    /\ pc = "returned"
    /\ returned = <<>>
    /\ pc' = "done"
    /\ UNCHANGED <<env, db, run, loop, returned, client, qi, clock, faults,
                   obs, prev_completed, probe>>

\* the replay variant: any new record makes main publish the whole store
MainPublish_replay ==
    /\ pc = "returned"
    /\ returned # <<>>
    /\ returned' = [i \in 1..Len(db) |-> db[i].doc]
    /\ qi' = 1
    /\ pc' = "publish"
    /\ UNCHANGED <<env, db, run, loop, client, clock, faults,
                   obs, prev_completed, probe>>

MainPublish ==
    /\ pc = "returned"
    /\ returned # <<>>
    /\ qi' = 1
    /\ pc' = "publish"
    /\ UNCHANGED <<env, db, run, loop, returned, client, clock, faults,
                   obs, prev_completed, probe>>

Polled(status) ==
    /\ obs' = [obs EXCEPT !.polls =
                  Append(@, [doc |-> returned[qi], status |-> status,
                             payload |-> PollPayload(returned[qi]), at |-> clock])]
    /\ pc' = "sleep"
    /\ UNCHANGED <<env, db, run, loop, returned, client, qi, clock,
                   prev_completed, probe>>

\* send_poll: the letter is not in option_mapping: log and return
SendPollUnresolved ==
    /\ pc = "publish"
    /\ qi <= Len(returned)
    /\ PollPayload(returned[qi]).correct_option_id = -1
    /\ Polled("unresolved")
    /\ UNCHANGED faults

\* send_poll: bot.send_poll is awaited and succeeds
SendPollOk ==
    /\ pc = "publish"
    /\ qi <= Len(returned)
    /\ PollPayload(returned[qi]).correct_option_id # -1
    /\ Polled("sent")
    /\ UNCHANGED faults

\* bot.send_poll raises TelegramError and nothing catches it: the loop ends
SendPollTelegramError_aborts ==
    /\ pc = "publish"
    /\ qi <= Len(returned)
    /\ PollPayload(returned[qi]).correct_option_id # -1
    /\ faults > 0
    /\ faults' = faults - 1
    /\ obs' = [obs EXCEPT !.polls =
                  Append(@, [doc |-> returned[qi], status |-> "TelegramError",
                             payload |-> PollPayload(returned[qi]), at |-> clock])]
    /\ pc' = "done"
    /\ UNCHANGED <<env, db, run, loop, returned, client, qi, clock,
                   prev_completed, probe>>

\* send_poll: bot.send_poll raises TelegramError, which is logged
SendPollTelegramError ==
    /\ pc = "publish"
    /\ qi <= Len(returned)
    /\ PollPayload(returned[qi]).correct_option_id # -1
    /\ faults > 0
    /\ faults' = faults - 1
    /\ Polled("TelegramError")

\* the delay is awaited only after a poll that was delivered
Sleep_only_after_sent ==
    /\ pc = "sleep"
    /\ clock' = IF obs.polls[Len(obs.polls)].status = "sent"
                THEN clock + PollDelay ELSE clock
    /\ qi' = qi + 1
    /\ pc' = "publish"
    /\ UNCHANGED <<env, db, run, loop, returned, client, faults, obs,
                   prev_completed, probe>>

\* await asyncio.sleep(3)
Sleep ==
    /\ pc = "sleep"
    /\ clock' = clock + PollDelay
    /\ qi' = qi + 1
    /\ pc' = "publish"
    /\ UNCHANGED <<env, db, run, loop, returned, client, faults, obs,
                   prev_completed, probe>>

PublishDone ==
    /\ pc = "publish"
    /\ qi > Len(returned)
    /\ pc' = "done"
    /\ UNCHANGED <<env, db, run, loop, returned, client, qi, clock, faults,
                   obs, prev_completed, probe>>

\* the job is started again: a new process on the same store and source
NewRun ==
    /\ pc = "done"
    /\ run < MaxRuns
    /\ run' = run + 1
    /\ pc' = "start"
    /\ valid_links' = <<>>
    /\ link' = 0
    /\ blk' = 0
    /\ raw' = NoRaw
    /\ tr' = <<>>
    /\ new_questions' = <<>>
    /\ returned' = <<>>
    /\ client' = "none"
    /\ qi' = 0
    /\ clock' = 0
    /\ obs' = NoObs(db)
    /\ prev_completed' = obs.completed
    /\ UNCHANGED <<env, db, faults, probe>>

Next ==
    \/ IndexFetchFail
    \/ IndexFetchOk
    \/ DedupeHit
    \/ DedupeMiss
    \/ DayFetchOk
    \/ DayFetchFail
    \/ BlockSkip
    \/ BlockExtract
    \/ TranslateField
    \/ InsertQuestion
    \/ PageDone
    \/ CloseAndReturn
    \/ MainNoNew
    \/ MainPublish
    \/ SendPollUnresolved
    \/ SendPollOk
    \/ SendPollTelegramError
    \/ Sleep
    \/ PublishDone
    \/ NewRun

Spec == Init /\ [][Next]_vars

(* ------------------------ truncate_text on its own --------------------- *)
ProbeTexts == SeqsUpTo({"a", "."}, MaxTextLen)

InitTruncate ==
    /\ today \in Dates
    /\ index_hrefs = <<>>
    /\ pages = <<>>
    /\ faults = 0
    /\ Idle(<<>>)
    /\ \E t \in ProbeTexts, m \in 0..MaxLimit :
          probe = [text |-> t, max_length |-> m, out |-> <<>>, done |-> FALSE]

\* bot.truncate_text(text, max_length)
Truncate ==
    /\ ~probe.done
    /\ probe' = [probe EXCEPT !.out = truncate_text(probe.text, probe.max_length),
                              !.done = TRUE]
    /\ UNCHANGED <<env, db, pc, run, loop, returned, client, qi, clock, faults,
                   obs, prev_completed>>

NextTruncate == Truncate

SpecTruncate == InitTruncate /\ [][NextTruncate]_vars

(* ------------------------------ properties ---------------------------- *)
\* the run has left scrape_questions_to_mongodb
Returned == pc \in {"returned", "publish", "sleep", "done"}

\* the links of this run whose dedupe lookup found the day / found nothing
HitLinks == {obs.checked[i].link : i \in {j \in 1..Len(obs.checked) : obs.checked[j].hit}}
MissLinks == {obs.checked[i].link : i \in {j \in 1..Len(obs.checked) : ~obs.checked[j].hit}}
FetchedLinks == {obs.fetched[i] : i \in 1..Len(obs.fetched)}

\* C1 (idempotency): a run that follows a run which went through all its links,
\* on the same source and the store that run left, makes no insert_question call.
C1_Idempotent == (run > 1 /\ prev_completed) => obs.inserts = 0

\* a second run that went through all links, found days in the store, fetched
\* the pages that had left no record, and inserted nothing
C1_Witness ==
    /\ run = 2 /\ prev_completed /\ obs.completed
    /\ HitLinks # {} /\ FetchedLinks # {}
    /\ obs.inserts = 0

\* C2 (dedup short-circuit): a link whose day has a record in its partition when
\* the link is reached is left with no day-page request, no translation and no
\* insert; and every day-page request follows a lookup of that link that found
\* nothing.
C2_DedupShortCircuit ==
    /\ [](/\ FetchedLinks \subseteq MissLinks
          /\ FetchedLinks \cap HitLinks = {}
          /\ pc \in {"fetch", "blocks", "translate", "insert"} => link \in MissLinks)
    /\ [][(/\ pc = "links"
           /\ link <= Len(valid_links)
           /\ find_one(db, Target(full_url).coll, Target(full_url).day))
          => (/\ pc' = "links"
              /\ link' = link + 1
              /\ obs'.fetched = obs.fetched
              /\ obs'.ext_calls = obs.ext_calls
              /\ obs'.inserts = obs.inserts
              /\ db' = db)]_vars

\* a link was found in the store and skipped, and the loop went on to a later
\* link, which was fetched
C2_Witness ==
    \E h \in HitLinks : h \notin FetchedLinks /\ \E f \in FetchedLinks : f > h

\* documents of one partition with one day
SameDay(i, j) == db[i].coll = db[j].coll /\ db[i].doc.day = db[j].doc.day

\* C3 as claimed: no partition holds two records with the same day.
C3_DayKeyUnique ==
    \A i, j \in 1..Len(db) : (i # j) => ~SameDay(i, j)

\* C3 as amended: the records of one partition with one day all come from the
\* one processing of one link in one run, and a link's page is processed (and
\* its records inserted) only when the partition held no record of its day
\* before that processing began.
C3_DayKeyOneFetch ==
    /\ \A i, j \in 1..Len(db) :
          SameDay(i, j) => (db[i].run = db[j].run /\ db[i].link = db[j].link)
    /\ pc \in {"fetch", "blocks", "translate", "insert"} =>
          \A i \in 1..Len(db) :
              (db[i].coll = Target(full_url).coll /\ db[i].doc.day = Target(full_url).day)
                  => (db[i].run = run /\ db[i].link = link)

\* two records of one day in one partition, and a later run that has skipped
\* that day
C3_Witness ==
    /\ \E i, j \in 1..Len(db) : i # j /\ SameDay(i, j)
    /\ run = 2 /\ HitLinks # {} /\ obs.completed

\* the documents inserted since the run began, in insertion order
InsertedThisRun ==
    [i \in 1..(Len(db) - Len(obs.db_at_start)) |-> db[Len(obs.db_at_start) + i].doc]

\* C4 as claimed: when the request for the page of link k fails, every later
\* link is still looked up and processed, and the function returns the records
\* the run inserted for the other days.
C4_FetchFailureFatalToDayOnly ==
    (Returned /\ obs.fetch_failed # 0) =>
        /\ \A l \in (obs.fetch_failed + 1)..Len(valid_links) :
              l \in HitLinks \cup MissLinks
        /\ returned = InsertedThisRun

\* C5 as claimed: a run that built the MongoDBManager has called
\* close_connection exactly once when scrape_questions_to_mongodb returns.
C5_ClosedOncePerRun ==
    (Returned /\ client # "none") => obs.closes = 1

\* C6 (index failure is fatal to the run): when the index request fails the
\* function returns the empty list, no day page is requested, no translation is
\* attempted, the store is as the run found it and no poll is sent.
C6_IndexFailureNoProgress ==
    obs.index_failed =>
        /\ Returned
        /\ returned = <<>>
        /\ obs.fetched = <<>>
        /\ obs.ext_calls = 0
        /\ obs.inserts = 0
        /\ db = obs.db_at_start
        /\ obs.polls = <<>>
        /\ pc \in {"returned", "done"}

\* a run on a store that holds records ended after its index request failed
C6_Witness ==
    obs.index_failed /\ pc = "done" /\ db # <<>> /\ run = 2

\* positions of the blocks of page, up to position n, whose extraction does not
\* raise, in document order
RECURSIVE WellFormed(_, _)
WellFormed(page, n) ==
    IF n = 0 THEN <<>>
    ELSE WellFormed(page, n - 1)
            \o (IF ExtractionRaises(page[n]) THEN <<>> ELSE <<n>>)

\* block positions of the records this run inserted under link l, in store order
RECURSIVE InsertedBlocks(_, _)
InsertedBlocks(l, n) ==
    IF n = 0 THEN <<>>
    ELSE InsertedBlocks(l, n - 1)
            \o (IF db[n].run = run /\ db[n].link = l THEN <<db[n].blk>> ELSE <<>>)

\* the blocks of link l's page the block loop is through with
BlocksDone(l) ==
    IF l = link /\ pc \in {"blocks", "translate", "insert"}
    THEN blk - 1
    ELSE Len(pages[valid_links[l]])

\* C7 (block-level isolation): of every fetched page, the blocks whose
\* extraction fails leave no record, and the well-formed blocks the loop is
\* through with have each left exactly one record, in document order; the
\* blocks after a failed one and the links after its page are processed.
C7_BlockIsolation ==
    /\ \A l \in FetchedLinks \ {obs.fetch_failed} :
          InsertedBlocks(l, Len(db)) = WellFormed(pages[valid_links[l]], BlocksDone(l))
    /\ \A i \in 1..Len(obs.skipped_blocks) :
          LET s == obs.skipped_blocks[i]
          IN  (Returned /\ obs.fetch_failed = 0) =>
                 \A l \in (s.link + 1)..Len(valid_links) : l \in HitLinks \cup MissLinks

\* a page whose malformed block is followed by a well-formed one that was
\* inserted, and a later page that was processed too
C7_Witness ==
    /\ obs.completed
    /\ \E i \in 1..Len(obs.skipped_blocks) :
          LET s == obs.skipped_blocks[i]
          IN  /\ \E n \in 1..Len(db) :
                    db[n].run = run /\ db[n].link = s.link /\ db[n].blk > s.blk
              /\ \E n \in 1..Len(db) : db[n].run = run /\ db[n].link > s.link

\* C8 (translator fallback): when every attempt fails, translate returns the
\* text unchanged after exactly 3 external calls; when attempt i succeeds first,
\* it returns that attempt's result after exactly i calls.
C8_TranslatorFallback ==
    LET t == obs.last_translate
    IN  /\ t.first_ok = 0 => (t.result = t.text /\ t.calls = 3)
        /\ t.first_ok > 0 => (t.result = Gu(t.text) /\ t.calls = t.first_ok)

\* a translate call all of whose attempts failed
C8_Witness ==
    /\ obs.last_translate.first_ok = 0
    /\ obs.last_translate.text # <<>>
    /\ obs.last_translate.result = obs.last_translate.text

\* C9 as claimed: for any text and any limit m the result is no longer than m;
\* it is the first m-3 characters followed by "..." when the text is longer
\* than m, and the text otherwise.
C9_TruncationLaw ==
    probe.done =>
        /\ Len(probe.out) <= probe.max_length
        /\ Len(probe.text) > probe.max_length =>
              probe.out = SubSeq(probe.text, 1, probe.max_length - 3) \o <<".", ".", ".">>
        /\ Len(probe.text) <= probe.max_length => probe.out = probe.text

\* C9 as amended: the same for any limit m >= 3.
C9_TruncationLawFrom3 ==
    (probe.done /\ probe.max_length >= 3) =>
        /\ Len(probe.out) <= probe.max_length
        /\ Len(probe.text) > probe.max_length =>
              probe.out = SubSeq(probe.text, 1, probe.max_length - 3) \o <<".", ".", ".">>
        /\ Len(probe.text) <= probe.max_length => probe.out = probe.text

\* a text longer than its limit was cut and given the ellipsis
C9_Witness ==
    /\ probe.done
    /\ probe.max_length >= 4
    /\ Len(probe.text) > probe.max_length
    /\ Len(probe.out) = probe.max_length

UpperLetters == <<"A", "B", "C", "D", "E", "F", "G", "H">>

\* the position (from 0) of the stored letter among the first n uppercase
\* letters, -1 when it is none of them
LetterPosition(letter, n) ==
    IF \E i \in 1..n : letter = <<UpperLetters[i]>>
    THEN (CHOOSE i \in 1..n : letter = <<UpperLetters[i]>>) - 1
    ELSE -1

\* C10 (letter-to-index law): send_poll submits a poll only for a stored letter
\* that is one of the first n uppercase letters, n the number of options, and
\* then with that letter's position as correct_option_id; for any other stored
\* letter it submits nothing.
C10_LetterToIndex ==
    \A i \in 1..Len(obs.polls) :
        LET p   == obs.polls[i]
            pos == LetterPosition(p.doc.value_in_braces, Len(p.doc.options))
        IN  /\ p.status \in {"sent", "TelegramError"} =>
                  (pos # -1 /\ p.payload.correct_option_id = pos)
            /\ pos = -1 => p.status = "unresolved"

\* a poll submitted for the letter B of two options, with index 1
C10_Witness ==
    \E i \in 1..Len(obs.polls) :
        /\ obs.polls[i].status = "sent"
        /\ obs.polls[i].doc.value_in_braces = <<"B">>
        /\ obs.polls[i].payload.correct_option_id = 1


\* C11 as claimed: every stored record has 0 <= correct_option_id <
\* len(options), whatever the number of options and the extracted letter.
C11_StoredIndexInRange ==
    \A n \in 1..Len(db) :
        /\ 0 <= db[n].doc.correct_option_id
        /\ db[n].doc.correct_option_id < Len(db[n].doc.options)


\* C12 (delivery-failure isolation): send_poll is called once for every record
\* of the queue, in queue order, also for the records after one whose delivery
\* raised TelegramError.
C12_DeliveryFailureIsolation ==
    /\ Len(obs.polls) <= Len(returned)
    /\ \A i \in 1..Len(obs.polls) : obs.polls[i].doc = returned[i]
    /\ pc = "publish" => Len(obs.polls) = qi - 1
    /\ pc = "sleep" => Len(obs.polls) = qi
    /\ pc = "done" => Len(obs.polls) = Len(returned)

\* a queue of three whose first delivery failed and whose loop reached its end
C12_Witness ==
    /\ pc = "done"
    /\ Len(returned) = 3
    /\ Len(obs.polls) = 3
    /\ obs.polls[1].status = "TelegramError"
    /\ obs.polls[3].status = "sent"


\* C13 (rate-limit ordering): between any two consecutive send_poll calls of
\* the publish loop at least 3 time units elapse, whether the earlier call
\* delivered its poll, failed with TelegramError or skipped the record.
C13_DelayBetweenAttempts ==
    \A i \in 1..(Len(obs.polls) - 1) :
        obs.polls[i + 1].at - obs.polls[i].at >= 3

\* a skipped record and a failed delivery, each followed by the next call a
\* full delay later
C13_Witness ==
    /\ \E i \in 1..(Len(obs.polls) - 1) :
          obs.polls[i].status = "unresolved" /\ obs.polls[i + 1].at = obs.polls[i].at + 3
    /\ \E i \in 1..(Len(obs.polls) - 1) :
          obs.polls[i].status = "TelegramError" /\ obs.polls[i + 1].at = obs.polls[i].at + 3


\* the last non-empty piece of url between "/" separators
LastSegment(url) ==
    LET segs == Split(url, "/")
    IN  segs[SetMax({i \in 1..Len(segs) : segs[i] # <<>>})]

\* the records this run stored
StoredThisRun == {n \in 1..Len(db) : db[n].run = run}

\* C14 as claimed: the day used for the lookup of a link, and stored in its
\* records, is the last non-empty path segment of the link's URL, with or
\* without a trailing "/"; two distinct day pages never get the same day.
C14_DayKeyIsLastSegment ==
    /\ \A i \in 1..Len(obs.checked) :
          obs.checked[i].day = LastSegment(valid_links[obs.checked[i].link])
    /\ \A n \in StoredThisRun : db[n].doc.day = LastSegment(valid_links[db[n].link])
    /\ \A i, j \in 1..Len(obs.checked) :
          valid_links[obs.checked[i].link] # valid_links[obs.checked[j].link]
              => obs.checked[i].day # obs.checked[j].day


\* the partition <year>, <month> that the date segment <year>-<month>-<day>
\* of url encodes
EncodedPartition(url) ==
    LET seg == LastSegment(url)
    IN  <<(<<seg[1]>>), (<<seg[3]>>)>>

\* C15 as claimed: every record is stored in the partition of the year and the
\* month its day-page URL encodes, and the lookup of a link is made in that
\* partition.
C15_PartitionIsYearMonth ==
    /\ \A n \in StoredThisRun :
          db[n].coll = EncodedPartition(valid_links[db[n].link])
    /\ \A i \in 1..Len(obs.checked) :
          obs.checked[i].coll = EncodedPartition(valid_links[obs.checked[i].link])


\* a year as the four digits a URL carries
YearText(y) == CASE y = 2024 -> "2024" [] y = 2025 -> "2025"

\* the links of hrefs whose date segment carries the year y and the month m
RECURSIVE LinksOfMonth(_, _, _)
LinksOfMonth(hrefs, y, m) ==
    IF hrefs = <<>> THEN <<>>
    ELSE (IF LET seg == LastSegment(urljoin(Head(hrefs)))
             IN  seg[1] = y /\ seg[3] = m
          THEN <<urljoin(Head(hrefs))>> ELSE <<>>)
         \o LinksOfMonth(Tail(hrefs), y, m)

\* C16 as claimed: the links kept are exactly the index page's links of the
\* current year and the current month.
C16_LinksOfCurrentYearAndMonth ==
    (pc # "start" /\ ~obs.index_failed) =>
        valid_links = LinksOfMonth(index_hrefs, YearText(today.year),
                                   TwoDigits[today.month])


\* the documents send_poll was called with, in call order
PolledDocs == [i \in 1..Len(obs.polls) |-> obs.polls[i].doc]

\* C17 as claimed: when the run is over, every record it stored has been passed
\* to send_poll, also when a later link's day-page request failed.
C17_InsertedArePublished ==
    pc = "done" => PolledDocs = InsertedThisRun

\* C18 (only-new publish scope): the records passed to send_poll are records
\* this run inserted, each once and in insertion order; records the store held
\* before the run are not passed; a run that inserts nothing sends no poll.
C18_PublishOnlyNew ==
    /\ Len(PolledDocs) <= Len(InsertedThisRun)
    /\ \A i \in 1..Len(PolledDocs) : PolledDocs[i] = InsertedThisRun[i]
    /\ obs.inserts = 0 => obs.polls = <<>>

\* a run on a store that held records published the records it inserted
C18_Witness ==
    /\ pc = "done"
    /\ obs.db_at_start # <<>>
    /\ obs.polls # <<>>
    /\ PolledDocs = InsertedThisRun


\* the send_poll calls that reached bot.send_poll
Submitted == {i \in 1..Len(obs.polls) : obs.polls[i].status \in {"sent", "TelegramError"}}

\* C19 as claimed: for every record send_poll submits a poll for, the submitted
\* correct_option_id equals the correct_option_id stored with that record, for
\* any number of options and any extracted letter.
C19_SubmittedEqualsStored ==
    \A i \in Submitted :
        obs.polls[i].payload.correct_option_id = obs.polls[i].doc.correct_option_id

====
